---- MODULE Spec2Model ----
(***************************************************************************)
(* MOVA Fleet Manager portal (src/src/App.tsx) as a state machine.         *)
(*                                                                         *)
(* State: the three collections owned by App (vehicles, policies,          *)
(* exceptions), App's spendWindow and tab, the local state of the mounted  *)
(* panel (PolicyEditor.draft, ExceptionsTable.filter), the fetches whose   *)
(* results have not been applied yet, and the environment's clock          *)
(* (Date.now()).  One action per event handler or promise callback.        *)
(*                                                                         *)
(* The fetch mocks are async functions: their results are applied by a     *)
(* promise callback after the handler that issued them has returned.  The  *)
(* callbacks of the mount effect are queued before the page takes any user *)
(* event, so user actions are enabled only once they have run; the         *)
(* callback of a refresh is a step of its own that other steps may         *)
(* precede (the source announces real fetch calls for these functions).    *)
(***************************************************************************)
EXTENDS Integers, Sequences, FiniteSets, TLC

VARIABLES
    vehicles,         \* App: useState<Vehicle[]>([])
    policies,         \* App: useState<Policy[]>([])
    exceptions,       \* App: useState<ExceptionItem[]>([])
    spendWindow,      \* App: "today" | "7d" | "30d"
    tab,              \* App: "map" | "policies" | "exceptions"
    draft,            \* PolicyEditor: the policy being edited
    filter,           \* ExceptionsTable: "All" | "Open" | "Approved" | "Denied"
    vehiclesPending,  \* fetchVehicles().then(setVehicles) not yet run
    policiesPending,  \* fetchPolicies().then(setPolicies) not yet run
    fetchesIssued,    \* calls of fetchExceptions() so far
    fetchesApplied,   \* of those, how many results setExceptions has applied
    now,              \* the value Date.now() returns
    mccInput,         \* the text last delivered by the MCC Allowlist input
    discarded,        \* history: decided items overwritten by the last applied fetch
    showHeatmap,      \* MapPanel: useState(true), the Heatmap checkbox
    mapLoaded,        \* MapPanel: the map's load event has run its handler
    captured,         \* MapPanel: the geojson the load handler's closure holds
    sourceData,       \* the map: data of its "vehicles" source, Absent before load
    heatVisible,      \* the map: layer vehicle-heat exists and is visible
    circVisible       \* the map: layer vehicle-circles exists and is visible

vars == <<vehicles, policies, exceptions, spendWindow, tab, draft, filter,
          vehiclesPending, policiesPending, fetchesIssued, fetchesApplied,
          now, mccInput, discarded,
          showHeatmap, mapLoaded, captured, sourceData, heatVisible, circVisible>>

\* the state of the mounted MapPanel and of its map
mapVars == <<showHeatmap, mapLoaded, captured, sourceData, heatVisible, circVisible>>

-----------------------------------------------------------------------------
(* Bounds of the model *)

\* fetchExceptions() is called at most this many times (mount + refreshes)
MaxFetches == 3

\* the clock advances at most this many times
MaxTicks == 1

\* the first value of the clock
ClockStart == 1000

\* the policies collection holds at most this many entries
MaxPolicies == 3

\* longest vehicle sequence given to the projection
MaxVehicles == 3

\* longest text typed into the MCC Allowlist input
MaxLen == 3

-----------------------------------------------------------------------------
(* Types and mock data *)

\* an optional field: Absent when the record leaves it out, Some(v) otherwise
Absent == <<>>

Some(v) == <<v>>

SpendWindows == {"today", "7d", "30d"}

Tabs == {"map", "policies", "exceptions"}

Filters == {"All", "Open", "Approved", "Denied"}

Decisions == {"Approved", "Denied"}

\* coordinates are kept as integers, in units of 1e-4 degree
mockVehicles ==
    << [id |-> "V-101", plate |-> "NDL 123 GP", driver |-> "S. Dlamini",
        lat |-> -262041, lng |-> 280473,
        spendToday |-> 950, spend7d |-> 5400, spend30d |-> 21000],
       [id |-> "V-102", plate |-> "CPT 456 WC", driver |-> "A. Williams",
        lat |-> -339249, lng |-> 184241,
        spendToday |-> 1200, spend7d |-> 7200, spend30d |-> 28500],
       [id |-> "V-103", plate |-> "DBN 789 KZN", driver |-> "K. Naidoo",
        lat |-> -298587, lng |-> 310218,
        spendToday |-> 300, spend7d |-> 4100, spend30d |-> 16000],
       [id |-> "V-104", plate |-> "PLK 908 LP", driver |-> "T. Mokoena",
        lat |-> -239045, lng |-> 294689,
        spendToday |-> 1800, spend7d |-> 9500, spend30d |-> 32000] >>

mockPolicies ==
    << [id |-> "P-1", name |-> "Driver Fuel-Only", scope |-> "Fuel-Only",
        dailyLimit |-> 2500, perTxnLimit |-> 1500, maxFillsPerDay |-> 2,
        startHour |-> 6, endHour |-> 20, requiresMobileUnlock |-> TRUE,
        geofenceCenter |-> Some([lat |-> -262041, lng |-> 280473]),
        geofenceRadiusKm |-> Some(10),
        mccAllow |-> Some(<<5541, 5542>>), mccBlock |-> Absent],
       [id |-> "P-2", name |-> "Maintenance & Fuel", scope |-> "Fuel+Maintenance",
        dailyLimit |-> 15000, perTxnLimit |-> 5000, maxFillsPerDay |-> 6,
        startHour |-> 5, endHour |-> 22, requiresMobileUnlock |-> FALSE,
        geofenceCenter |-> Absent, geofenceRadiusKm |-> Absent,
        mccAllow |-> Some(<<5541, 5542, 7538, 5013>>), mccBlock |-> Absent] >>

\* time is the ISO string of the moment the module was loaded, minus 0, 1, 2 hours
mockExceptions ==
    << [id |-> "E-9001", time |-> "T", vehicleId |-> "V-104",
        plate |-> "PLK 908 LP", driver |-> "T. Mokoena", type |-> "After-Hours",
        amount |-> 680, location |-> "N1 North, Polokwane",
        reason |-> "Swipe at 22:37 outside allowed 06:00-20:00 window",
        status |-> "Open"],
       [id |-> "E-9002", time |-> "T-1h", vehicleId |-> "V-103",
        plate |-> "DBN 789 KZN", driver |-> "K. Naidoo", type |-> "Off-Route",
        amount |-> 420, location |-> "Queensburgh, Durban",
        reason |-> "Vehicle 8km outside geofence at time of purchase",
        status |-> "Open"],
       [id |-> "E-9003", time |-> "T-2h", vehicleId |-> "V-101",
        plate |-> "NDL 123 GP", driver |-> "S. Dlamini", type |-> "MCC-Blocked",
        amount |-> 1200, location |-> "Braamfontein, JHB",
        reason |-> "Attempted purchase at blocked MCC 5812 (Restaurants)",
        status |-> "Open"] >>

fetchVehicles == mockVehicles

fetchPolicies == mockPolicies

\* a plausible slip: the feed hands back the collection the page is showing
fetchExceptionsLive == IF exceptions = <<>> THEN mockExceptions ELSE exceptions

fetchExceptions == mockExceptions

\* PolicyEditor's initial draft
InitialDraft ==
    [id |-> "new", name |-> "New Policy", scope |-> "Fuel-Only",
     dailyLimit |-> 2500, perTxnLimit |-> 1500, maxFillsPerDay |-> 2,
     startHour |-> 6, endHour |-> 20, requiresMobileUnlock |-> TRUE,
     geofenceCenter |-> Some([lat |-> -262041, lng |-> 280473]),
     geofenceRadiusKm |-> Some(10),
     mccAllow |-> Some(<<5541, 5542>>), mccBlock |-> Absent]

NoInput == <<"none">>

-----------------------------------------------------------------------------
(* Map panel: the projection of the vehicles and the update effect *)

\* a plausible slip: latitude and longitude in the wrong order
vehiclesToGeoJSONLatLng(vs, spendKey) ==
    [type |-> "FeatureCollection",
     features |-> [i \in 1..Len(vs) |->
        [type |-> "Feature",
         properties |-> [id |-> vs[i].id, plate |-> vs[i].plate,
                         driver |-> vs[i].driver, spend |-> vs[i][spendKey]],
         geometry |-> [type |-> "Point",
                       coordinates |-> <<vs[i].lat, vs[i].lng>>]]]]

vehiclesToGeoJSON(vs, spendKey) ==
    [type |-> "FeatureCollection",
     features |-> [i \in 1..Len(vs) |->
        [type |-> "Feature",
         properties |-> [id |-> vs[i].id, plate |-> vs[i].plate,
                         driver |-> vs[i].driver, spend |-> vs[i][spendKey]],
         geometry |-> [type |-> "Point",
                       coordinates |-> <<vs[i].lng, vs[i].lat>>]]]]

\* MapPanel.geojson: the memo's value for given vehicles and spend window
geojsonOf(vs, w) ==
    LET key == IF w = "today" THEN "spendToday"
               ELSE IF w = "7d" THEN "spend7d" ELSE "spend30d"
    IN  vehiclesToGeoJSON(vs, key)

\* MapPanel.geojson (useMemo over vehicles and spendWindow)
geojson == geojsonOf(vehicles, spendWindow)

\* MapPanel's second effect (deps [geojson, showHeatmap]), run after a render
\* in which one of them changed: it reaches the source and the layers only
\* once the load handler has added them
updateEffect(gj, sh) ==
    /\ sourceData' = IF mapLoaded THEN Some(gj) ELSE sourceData
    /\ heatVisible' = IF mapLoaded THEN sh ELSE heatVisible
    /\ circVisible' = IF mapLoaded THEN ~sh ELSE circVisible


-----------------------------------------------------------------------------
(* Initial state: App has rendered once and its mount effect has issued the  *)
(* three fetches.                                                            *)

Init ==
    /\ vehicles = <<>>
    /\ policies = <<>>
    /\ exceptions = <<>>
    /\ spendWindow = "today"
    /\ tab = "map"
    /\ draft = InitialDraft
    /\ filter = "Open"
    /\ vehiclesPending = TRUE
    /\ policiesPending = TRUE
    /\ fetchesIssued = 1
    /\ fetchesApplied = 0
    /\ now = ClockStart
    /\ mccInput = NoInput
    /\ discarded = 0
    /\ showHeatmap = TRUE
    /\ mapLoaded = FALSE
    /\ captured = Some(geojsonOf(<<>>, "today"))
    /\ sourceData = Absent
    /\ heatVisible = FALSE
    /\ circVisible = FALSE

\* the callbacks queued by the mount effect have all run
InitialLoadDone ==
    /\ ~vehiclesPending
    /\ ~policiesPending
    /\ fetchesApplied >= 1

-----------------------------------------------------------------------------
(* Exceptions *)

\* a plausible slip: "All" compared with the status like any other filter value
filteredNoAll(items, f) == SelectSeq(items, LAMBDA e : e.status = f)

\* ExceptionsTable.filtered
filtered(items, f) ==
    SelectSeq(items, LAMBDA e : IF f = "All" THEN TRUE ELSE e.status = f)

\* the number of decided (non-Open) items of a collection
Decided(items) == Cardinality({i \in 1..Len(items) : items[i].status # "Open"})

\* fetchExceptions().then(setExceptions): the callback
ExceptionsFetched ==
    /\ fetchesApplied < fetchesIssued
    /\ exceptions' = fetchExceptions
    /\ fetchesApplied' = fetchesApplied + 1
    /\ discarded' = Decided(exceptions)
    /\ UNCHANGED <<vehicles, policies, spendWindow, tab, draft, filter,
                   vehiclesPending, policiesPending, fetchesIssued, now, mccInput,
                   mapVars>>

\* the ids of the rows the table lists: each has an Approve and a Deny button
ListedIds ==
    {filtered(exceptions, filter)[k].id : k \in 1..Len(filtered(exceptions, filter))}

\* a plausible slip: the handler maps the collection it first saw (a stale
\* closure over the state) instead of the updater's argument
withStatusStale(prev, id, action) ==
    [i \in 1..Len(fetchExceptions) |->
        IF fetchExceptions[i].id = id
        THEN [fetchExceptions[i] EXCEPT !.status = action]
        ELSE fetchExceptions[i]]

\* the updater handleExceptionAction gives to setExceptions:
\* prev.map((e) => (e.id === id ? { ...e, status: action } : e))
withStatus(prev, id, action) ==
    [i \in 1..Len(prev) |->
        IF prev[i].id = id THEN [prev[i] EXCEPT !.status = action] ELSE prev[i]]

\* App.handleExceptionAction, called by the Approve / Deny button of a listed row
handleExceptionAction(id, action) ==
    /\ InitialLoadDone
    /\ tab = "exceptions"
    /\ id \in ListedIds
    /\ exceptions' = withStatus(exceptions, id, action)
    /\ UNCHANGED <<vehicles, policies, spendWindow, tab, draft, filter,
                   vehiclesPending, policiesPending, fetchesIssued,
                   fetchesApplied, now, mccInput, discarded,
                   mapVars>>

\* ExceptionsTable: the Approve and Deny buttons, one pair per listed row
onAction == \E id \in ListedIds, a \in Decisions : handleExceptionAction(id, a)

\* the Refresh button
handleRefreshExceptions ==
    /\ InitialLoadDone
    /\ tab = "exceptions"
    /\ fetchesIssued < MaxFetches
    /\ fetchesIssued' = fetchesIssued + 1
    /\ UNCHANGED <<vehicles, policies, exceptions, spendWindow, tab, draft,
                   filter, vehiclesPending, policiesPending, fetchesApplied,
                   now, mccInput, discarded,
                   mapVars>>

\* the status filter select
setFilter(f) ==
    /\ InitialLoadDone
    /\ tab = "exceptions"
    /\ filter' = f
    /\ UNCHANGED <<vehicles, policies, exceptions, spendWindow, tab, draft,
                   vehiclesPending, policiesPending, fetchesIssued,
                   fetchesApplied, now, mccInput, discarded,
                   mapVars>>

-----------------------------------------------------------------------------
(* App: tabs and the other two mount fetches *)

\* a tab button; the panel that is left unmounts and its local state is gone,
\* the panel that is shown mounts with its initial state
setTab(t) ==
    /\ InitialLoadDone
    /\ t # tab
    /\ tab' = t
    /\ draft' = InitialDraft
    /\ filter' = "Open"
    /\ mccInput' = NoInput
    /\ showHeatmap' = TRUE
    /\ mapLoaded' = FALSE
    /\ captured' = IF t = "map" THEN Some(geojson) ELSE Absent
    /\ sourceData' = Absent
    /\ heatVisible' = FALSE
    /\ circVisible' = FALSE
    /\ UNCHANGED <<vehicles, policies, exceptions, spendWindow,
                   vehiclesPending, policiesPending, fetchesIssued,
                   fetchesApplied, now, discarded>>

\* fetchVehicles().then(setVehicles): the callback
VehiclesFetched ==
    /\ vehiclesPending
    /\ vehicles' = fetchVehicles
    /\ vehiclesPending' = FALSE
    /\ updateEffect(geojsonOf(fetchVehicles, spendWindow), showHeatmap)
    /\ UNCHANGED <<policies, exceptions, spendWindow, tab, draft, filter,
                   policiesPending, fetchesIssued, fetchesApplied, now,
                   mccInput, discarded, showHeatmap, mapLoaded, captured>>

\* fetchPolicies().then(setPolicies): the callback
PoliciesFetched ==
    /\ policiesPending
    /\ policies' = fetchPolicies
    /\ policiesPending' = FALSE
    /\ UNCHANGED <<vehicles, exceptions, spendWindow, tab, draft, filter,
                   vehiclesPending, fetchesIssued, fetchesApplied, now,
                   mccInput, discarded,
                   mapVars>>

-----------------------------------------------------------------------------
(* Policy editor *)

\* the values typed into the editor's fields: update(key, value)
UpdateInputs ==
    { <<"dailyLimit", 1000>>, <<"startHour", 22>>, <<"endHour", 6>> }

\* PolicyEditor.update
update(key, value) ==
    /\ InitialLoadDone
    /\ tab = "policies"
    /\ draft' = [draft EXCEPT ![key] = value]
    /\ UNCHANGED <<vehicles, policies, exceptions, spendWindow, tab, filter,
                   vehiclesPending, policiesPending, fetchesIssued,
                   fetchesApplied, now, mccInput, discarded,
                   mapVars>>

\* the Edit button of a listed policy: setDraft(p)
Edit ==
    /\ InitialLoadDone
    /\ tab = "policies"
    /\ \E i \in 1..Len(policies) : draft' = policies[i]
    /\ mccInput' = NoInput
    /\ UNCHANGED <<vehicles, policies, exceptions, spendWindow, tab, filter,
                   vehiclesPending, policiesPending, fetchesIssued,
                   fetchesApplied, now, discarded,
                   mapVars>>

\* `P-${Date.now()}`
MintId(t) == "P-" \o ToString(t)

\* prev.findIndex((x) => x.id === p.id): the first position, 0 for none (-1 in the code)
findIndex(prev, id) ==
    IF \E i \in 1..Len(prev) : prev[i].id = id
    THEN CHOOSE i \in 1..Len(prev) :
             /\ prev[i].id = id
             /\ \A j \in 1..(i - 1) : prev[j].id # id
    ELSE 0

\* App.handleSavePolicy: the updater given to setPolicies
handleSavePolicy(prev, p) ==
    LET idx == findIndex(prev, p.id)
    IN  IF idx >= 1 THEN [prev EXCEPT ![idx] = p] ELSE <<p>> \o prev

\* PolicyEditor.save: the Save Policy button
save ==
    /\ InitialLoadDone
    /\ tab = "policies"
    /\ LET p == [draft EXCEPT !.id = IF draft.id = "new" THEN MintId(now)
                                     ELSE draft.id]
       IN  /\ Len(handleSavePolicy(policies, p)) <= MaxPolicies
           /\ policies' = handleSavePolicy(policies, p)
    /\ UNCHANGED <<vehicles, exceptions, spendWindow, tab, draft, filter,
                   vehiclesPending, policiesPending, fetchesIssued,
                   fetchesApplied, now, mccInput, discarded,
                   mapVars>>

\* time passes: Date.now() returns a later value
Tick ==
    /\ now < ClockStart + MaxTicks
    /\ now' = now + 1
    /\ UNCHANGED <<vehicles, policies, exceptions, spendWindow, tab, draft,
                   filter, vehiclesPending, policiesPending, fetchesIssued,
                   fetchesApplied, mccInput, discarded,
                   mapVars>>

NextPolicies ==
    \/ VehiclesFetched
    \/ PoliciesFetched
    \/ ExceptionsFetched
    \/ \E t \in Tabs : setTab(t)
    \/ \E u \in UpdateInputs : update(u[1], u[2])
    \/ Edit
    \/ save
    \/ Tick

\* the Policies tab, without the MCC Allowlist text field (see SpecMcc)
SpecPolicies == Init /\ [][NextPolicies]_vars

-----------------------------------------------------------------------------
(* The MCC Allowlist text field.  A text is a sequence of characters. *)

MccChars == {"1", "5", ",", " ", "x"}

Digits == {"0", "1", "2", "3", "4", "5", "6", "7", "8", "9"}

DigitValue(c) ==
    CASE c = "0" -> 0 [] c = "1" -> 1 [] c = "2" -> 2 [] c = "3" -> 3
      [] c = "4" -> 4 [] c = "5" -> 5 [] c = "6" -> 6 [] c = "7" -> 7
      [] c = "8" -> 8 [] c = "9" -> 9

RECURSIVE split(_)
\* String.prototype.split(","): "" gives one empty token
split(s) ==
    IF \E i \in 1..Len(s) : s[i] = ","
    THEN LET i == CHOOSE k \in 1..Len(s) :
                      /\ s[k] = ","
                      /\ \A j \in 1..(k - 1) : s[j] # ","
         IN  <<SubSeq(s, 1, i - 1)>> \o split(SubSeq(s, i + 1, Len(s)))
    ELSE <<s>>

RECURSIVE trim(_)
\* String.prototype.trim
trim(s) ==
    IF s = <<>> THEN s
    ELSE IF Head(s) = " " THEN trim(Tail(s))
    ELSE IF s[Len(s)] = " " THEN trim(SubSeq(s, 1, Len(s) - 1))
    ELSE s

RECURSIVE decimal(_)
decimal(s) ==
    IF s = <<>> THEN 0
    ELSE 10 * decimal(SubSeq(s, 1, Len(s) - 1)) + DigitValue(s[Len(s)])

\* Number(string) on a trimmed text of these characters: the empty string is 0,
\* a string of digits is its value, anything else is NaN
Number(s) ==
    IF s = <<>> THEN [isNaN |-> FALSE, value |-> 0]
    ELSE IF \A i \in 1..Len(s) : s[i] \in Digits
         THEN [isNaN |-> FALSE, value |-> decimal(s)]
         ELSE [isNaN |-> TRUE, value |-> 0]

\* text.split(",").map((n) => Number(n.trim())).filter((n) => !Number.isNaN(n))
parseMccAllow(text) ==
    LET tokens == split(text)
        mapped == [i \in 1..Len(tokens) |-> Number(trim(tokens[i]))]
        kept == SelectSeq(mapped, LAMBDA n : ~n.isNaN)
    IN  [i \in 1..Len(kept) |-> kept[i].value]

RECURSIVE TextsUpTo(_)
TextsUpTo(n) ==
    IF n = 0 THEN {<<>>}
    ELSE LET shorter == TextsUpTo(n - 1)
         IN  shorter \cup {Append(t, c) : t \in shorter, c \in MccChars}

\* the MCC Allowlist input's onChange
onMccChange(text) ==
    /\ InitialLoadDone
    /\ tab = "policies"
    /\ draft' = [draft EXCEPT !.mccAllow = Some(parseMccAllow(text))]
    /\ mccInput' = text
    /\ UNCHANGED <<vehicles, policies, exceptions, spendWindow, tab, filter,
                   vehiclesPending, policiesPending, fetchesIssued,
                   fetchesApplied, now, discarded,
                   mapVars>>

NextMcc ==
    \/ VehiclesFetched
    \/ PoliciesFetched
    \/ ExceptionsFetched
    \/ \E t \in Tabs : setTab(t)
    \/ \E text \in TextsUpTo(MaxLen) : onMccChange(text)

\* the Policies tab with only the MCC Allowlist text field
SpecMcc == Init /\ [][NextMcc]_vars

-----------------------------------------------------------------------------
(* Map panel: the toolbar, the load event and the Heatmap checkbox *)

\* Toolbar: the Spend Window select
setSpendWindow(w) ==
    /\ InitialLoadDone
    /\ spendWindow' = w
    /\ IF w # spendWindow
       THEN updateEffect(geojsonOf(vehicles, w), showHeatmap)
       ELSE UNCHANGED <<sourceData, heatVisible, circVisible>>
    /\ UNCHANGED <<vehicles, policies, exceptions, tab, draft, filter,
                   vehiclesPending, policiesPending, fetchesIssued,
                   fetchesApplied, now, mccInput, discarded,
                   showHeatmap, mapLoaded, captured>>

\* the map's load event: the handler registered by MapPanel's mount effect
\* adds the source with the geojson of the render that mounted the panel,
\* and the layers, each visible by default
MapLoad ==
    /\ tab = "map"
    /\ ~mapLoaded
    /\ mapLoaded' = TRUE
    /\ sourceData' = captured
    /\ heatVisible' = TRUE
    /\ circVisible' = TRUE
    /\ UNCHANGED <<vehicles, policies, exceptions, spendWindow, tab, draft,
                   filter, vehiclesPending, policiesPending, fetchesIssued,
                   fetchesApplied, now, mccInput, discarded, showHeatmap,
                   captured>>

\* the Heatmap checkbox: setShowHeatmap(e.target.checked)
toggleHeatmap ==
    /\ InitialLoadDone
    /\ tab = "map"
    /\ showHeatmap' = ~showHeatmap
    /\ updateEffect(geojson, ~showHeatmap)
    /\ UNCHANGED <<vehicles, policies, exceptions, spendWindow, tab, draft,
                   filter, vehiclesPending, policiesPending, fetchesIssued,
                   fetchesApplied, now, mccInput, discarded, mapLoaded,
                   captured>>

NextMap ==
    \/ VehiclesFetched
    \/ PoliciesFetched
    \/ ExceptionsFetched
    \/ \E t \in Tabs : setTab(t)
    \/ \E w \in SpendWindows : setSpendWindow(w)
    \/ MapLoad
    \/ toggleHeatmap
    \/ Tick

\* the Map tab and the toolbar, with the clock running
SpecMap == Init /\ [][NextMap]_vars

RECURSIVE VehicleSeqsUpTo(_)
VehicleSeqsUpTo(n) ==
    IF n = 0 THEN {<<>>}
    ELSE LET shorter == VehicleSeqsUpTo(n - 1)
         IN  shorter \cup {Append(vs, mockVehicles[i]) :
                             vs \in shorter, i \in 1..Len(mockVehicles)}

\* the loaded page with any vehicle sequence from the feed
InitProject ==
    /\ vehicles \in VehicleSeqsUpTo(MaxVehicles)
    /\ policies = mockPolicies
    /\ exceptions = mockExceptions
    /\ spendWindow = "today"
    /\ tab = "map"
    /\ draft = InitialDraft
    /\ filter = "Open"
    /\ vehiclesPending = FALSE
    /\ policiesPending = FALSE
    /\ fetchesIssued = 1
    /\ fetchesApplied = 1
    /\ now = ClockStart
    /\ mccInput = NoInput
    /\ discarded = 0
    /\ showHeatmap = TRUE
    /\ mapLoaded = FALSE
    /\ captured = Some(geojsonOf(vehicles, "today"))
    /\ sourceData = Absent
    /\ heatVisible = FALSE
    /\ circVisible = FALSE

NextProject == \E w \in SpendWindows : setSpendWindow(w)

SpecProject == InitProject /\ [][NextProject]_vars

-----------------------------------------------------------------------------
(* The Exceptions tab *)

NextExceptions ==
    \/ VehiclesFetched
    \/ PoliciesFetched
    \/ ExceptionsFetched
    \/ \E t \in Tabs : setTab(t)
    \/ \E f \in Filters : setFilter(f)
    \/ onAction
    \/ handleRefreshExceptions

SpecExceptions == Init /\ [][NextExceptions]_vars

\* a fetch that was issued is applied: the promise of the mock always resolves
FairSpecExceptions == SpecExceptions /\ WF_vars(ExceptionsFetched)

-----------------------------------------------------------------------------
(* The whole page.  The panels act on disjoint parts of the state, so each  *)
(* is also checked on its own (SpecExceptions, SpecPolicies, SpecMcc,      *)
(* SpecMap).                                                                *)

Next ==
    \/ NextExceptions
    \/ NextPolicies
    \/ NextMcc
    \/ NextMap

Spec == Init /\ [][Next]_vars

-----------------------------------------------------------------------------
(* Claims about the exceptions queue *)

\* the status shown for the item with this id, "none" when it is not listed
StatusOf(items, id) ==
    IF \E i \in 1..Len(items) : items[i].id = id
    THEN (CHOOSE e \in {items[i] : i \in 1..Len(items)} : e.id = id).status
    ELSE "none"

ExceptionIds == {mockExceptions[i].id : i \in 1..Len(mockExceptions)}

\* C1: a triage action on an item whose status is already Approved or Denied
\* leaves that item's status unchanged; only an Open item is changed by it.
C1_TriageOnlyFromOpen ==
    [][\A id \in ExceptionIds : \A a \in Decisions :
          (handleExceptionAction(id, a) /\ StatusOf(exceptions, id) # "Open")
              => StatusOf(exceptions', id) = StatusOf(exceptions, id)]_vars

\* C2: over all steps (load, triage, refresh) an item that is Approved or
\* Denied is never seen later with another status.
C2_TerminalStatusKept ==
    [][\A id \in ExceptionIds :
          StatusOf(exceptions, id) \in Decisions
              => StatusOf(exceptions', id) = StatusOf(exceptions, id)]_vars

\* the positions of the items a filter value selects
Matching(items, f) ==
    {i \in 1..Len(items) : f = "All" \/ items[i].status = f}

\* the k-th smallest position of a set of positions
KthOf(S, k) == CHOOSE i \in S : Cardinality({j \in S : j <= i}) = k

\* C6: for every filter value the listing is exactly the items with that
\* status, in the collection's order; for All it is the whole collection.
C6_FilterIsOrderedSubsequence ==
    \A f \in Filters :
        LET r == filtered(exceptions, f)
            S == Matching(exceptions, f)
        IN  /\ Len(r) = Cardinality(S)
            /\ \A k \in 1..Len(r) : r[k] = exceptions[KthOf(S, k)]
            /\ (f = "All" => r = exceptions)

\* C6 witness: a collection with mixed statuses listed under a status filter
C6_Witness ==
    /\ filter = "Approved"
    /\ Len(filtered(exceptions, filter)) = 2
    /\ exceptions[1].status = "Approved"
    /\ exceptions[2].status = "Denied"
    /\ exceptions[3].status = "Approved"

\* C7: every fetch of the exception feed that was issued is applied, and the
\* step that applies it leaves the collection equal to the feed's sequence,
\* whatever was triaged before.
C7_RefreshReplacesWholesale ==
    /\ \A n \in 1..MaxFetches :
           [](fetchesIssued >= n => <>(fetchesApplied >= n))
    /\ [][fetchesApplied' # fetchesApplied => exceptions' = mockExceptions]_vars

\* C7 witness: a refresh has been applied over a collection with decided items
C7_Witness ==
    /\ fetchesApplied >= 2
    /\ discarded > 0
    /\ exceptions = mockExceptions

-----------------------------------------------------------------------------
(* Claims about the policy editor *)

\* C3: every stored policy has perTxnLimit <= dailyLimit (a save of a draft
\* that breaks this is rejected and leaves the collection unchanged).
C3_PerTxnWithinDaily ==
    \A i \in 1..Len(policies) : policies[i].perTxnLimit <= policies[i].dailyLimit

\* C4: every stored policy has 0 <= startHour < endHour <= 24 (a save of a
\* draft that breaks this is rejected and leaves the collection unchanged).
C4_HourWindowValid ==
    \A i \in 1..Len(policies) :
        /\ 0 <= policies[i].startHour
        /\ policies[i].startHour < policies[i].endHour
        /\ policies[i].endHour <= 24

PolicyIds(ps) == {ps[i].id : i \in 1..Len(ps)}

\* a save of a stored policy's draft replaces that entry where it is
SaveReplacesInPlace ==
    (save /\ draft.id \in PolicyIds(policies))
        => /\ Len(policies') = Len(policies)
           /\ \A j \in 1..Len(policies) :
                  policies'[j] = IF policies[j].id = draft.id THEN draft
                                 ELSE policies[j]

\* a save of a "new" draft adds one entry whose id no stored policy had
SaveNewAddsFresh ==
    (save /\ draft.id = "new")
        => /\ Len(policies') = Len(policies) + 1
           /\ \E j \in 1..Len(policies') :
                  /\ policies'[j].id \notin PolicyIds(policies)
                  /\ policies'[j] = [draft EXCEPT !.id = policies'[j].id]

\* the stored ids are pairwise distinct and none is "new"
PolicyIdsDistinct ==
    /\ \A i, j \in 1..Len(policies) : policies[i].id = policies[j].id => i = j
    /\ "new" \notin PolicyIds(policies)

\* C5: saving a stored policy's draft replaces it in place; saving a "new"
\* draft adds one entry under an id no stored policy has; hence all stored
\* ids are pairwise distinct and none is "new".
C5_SaveReplacesOrAddsFresh ==
    [][SaveReplacesInPlace /\ SaveNewAddsFresh /\ PolicyIdsDistinct']_vars

\* the values of the tokens that are numbers (non-empty, all digits), in order
NumericTokenValues(text) ==
    LET tokens == split(text)
        IsNumber(t) == trim(t) # <<>> /\ \A i \in 1..Len(trim(t)) : trim(t)[i] \in Digits
        kept == SelectSeq(tokens, IsNumber)
    IN  [i \in 1..Len(kept) |-> decimal(trim(kept[i]))]

\* C10: after the MCC allowlist text is edited, mccAllow holds one entry per
\* comma-separated token that is a number, in input order, and nothing for
\* any other token (an empty or whitespace-only token included).
C10_MccKeepsOnlyNumbers ==
    mccInput # NoInput => draft.mccAllow = Some(NumericTokenValues(mccInput))

-----------------------------------------------------------------------------
(* Claims about the projection *)

SpendOf(v, w) ==
    CASE w = "today" -> v.spendToday
      [] w = "7d" -> v.spend7d
      [] w = "30d" -> v.spend30d

\* C8: the projection has one feature per vehicle, in order, the i-th one
\* carrying the i-th vehicle's id, plate, driver, (lng, lat) and the spend
\* aggregate the window selects.
C8_ProjectionOneFeaturePerVehicle ==
    /\ Len(geojson.features) = Len(vehicles)
    /\ \A i \in 1..Len(vehicles) :
           LET f == geojson.features[i]
               v == vehicles[i]
           IN  /\ f.properties.id = v.id
               /\ f.properties.plate = v.plate
               /\ f.properties.driver = v.driver
               /\ f.properties.spend = SpendOf(v, spendWindow)
               /\ f.geometry.coordinates[1] = v.lng
               /\ f.geometry.coordinates[2] = v.lat

\* C8 witness: several vehicles projected under a window other than the first
C8_Witness ==
    /\ Len(vehicles) = 3
    /\ vehicles[1].id # vehicles[2].id
    /\ spendWindow = "30d"
    /\ geojson.features[2].properties.spend = vehicles[2].spend30d

-----------------------------------------------------------------------------
(* Claims about the frame of a triage action *)

\* an id no item of the feed has
UnknownId == "E-0000"

\* the items of two collections agree, position by position, on id and on
\* every field but status
SameButStatus(a, b) ==
    /\ Len(a) = Len(b)
    /\ \A i \in 1..Len(a) : [a[i] EXCEPT !.status = "Open"] = [b[i] EXCEPT !.status = "Open"]

\* C13: a triage action changes only the status of the items with the given
\* id: length, order, the other items, the other fields and the vehicles and
\* policies collections stay as they are; an id that matches no item changes
\* nothing; two triage actions on different items both take effect.
C13_TriageFrame ==
    /\ [][\A id \in ExceptionIds : \A a \in Decisions :
             handleExceptionAction(id, a)
                 => /\ SameButStatus(exceptions, exceptions')
                    /\ \A i \in 1..Len(exceptions) :
                           exceptions'[i] =
                               IF exceptions[i].id = id
                               THEN [exceptions[i] EXCEPT !.status = a]
                               ELSE exceptions[i]
                    /\ vehicles' = vehicles
                    /\ policies' = policies]_vars
    /\ [](\A a \in Decisions : withStatus(exceptions, UnknownId, a) = exceptions)
    /\ [](\A i, j \in 1..Len(exceptions) : \A a, b \in Decisions :
             i # j =>
                 LET after == withStatus(withStatus(exceptions, exceptions[i].id, a),
                                         exceptions[j].id, b)
                 IN  /\ after[i].status = a
                     /\ after[j].status = b
                     /\ SameButStatus(exceptions, after))

\* C13 witness: two triage actions on different items have both taken effect
C13_Witness ==
    /\ Len(exceptions) = 3
    /\ exceptions[1].status = "Approved"
    /\ exceptions[2].status = "Denied"
    /\ exceptions[3] = mockExceptions[3]
    /\ SameButStatus(exceptions, mockExceptions)

-----------------------------------------------------------------------------
(* Claims about the map *)

\* C11: once the load handler has added the two layers, exactly one of them
\* is visible: vehicle-heat iff the Heatmap toggle is on, vehicle-circles iff
\* it is off, from the moment of load on.
C11_OneLayerVisible ==
    mapLoaded => /\ heatVisible <=> showHeatmap
                 /\ circVisible <=> ~showHeatmap

\* C12: once the map has loaded and the vehicle fetch has been applied, the
\* data of the "vehicles" source is the projection of the current vehicles
\* under the current spend window.
C12_SourceShowsVehicles ==
    (mapLoaded /\ ~vehiclesPending) => sourceData = Some(geojson)

====
